---- MODULE Spec2Model ----
(***************************************************************************)
(* Model of leo-kenji/nautilus-rename-in-editor, src/rename_in_editor.py.  *)
(*                                                                         *)
(* A path and a text are sequences of one-character strings.  The          *)
(* filesystem is a function from the paths that exist to the content of    *)
(* the file there; the content of a file is the path it had when the run   *)
(* started, so that "the file that was at p" can be followed.              *)
(*                                                                         *)
(* An EnumeratedFiles object (a Python dict, which iterates in insertion   *)
(* order) is a sequence of records [key, path] with pairwise distinct keys.*)
(***************************************************************************)
EXTENDS Integers, Sequences, FiniteSets, TLC

VARIABLES
    fs,              \* the filesystem now
    fs0,             \* the filesystem when the run started (never changes)
    original_paths,  \* rename_files' first argument
    new_paths,       \* rename_files' second argument
    pc,              \* position inside rename_files
    idx,             \* position of the primary loop in original_paths.items()
    temp_names,      \* list[TempNameRecord]
    ridx,            \* position of the restore loop in temp_names
    err,             \* the exception that ended the run, or "none"
    calls,           \* history of the safe_rename calls issued, with outcome
    lpc,             \* position inside RenamePlugin.logic (or the codec run)
    files,           \* logic's argument: the list of selected files
    tmpfile,         \* content of the temporary file the editor works on
    text,            \* the text handed to from_str
    enumerated_files,\* from_str's local dict, before the constructor sees it
    lerr,            \* the exception that ended logic or the codec, or "none"
    steps            \* history of the steps of logic (or the codec run) taken

\* The state of rename_files and of the filesystem.
rvars == <<fs, fs0, original_paths, new_paths, pc, idx, temp_names, ridx, err, calls>>

\* The state of logic outside rename_files.
lvars == <<lpc, files, tmpfile, text, enumerated_files, lerr, steps>>

vars == <<rvars, lvars>>

----------------------------------------------------------------------------
(* Paths *)

\* The characters "_temp_name_" + str(hash(path)) that mangled_path appends
\* to the name of `path`, as one character.
TempSuffix == "T"

\* mangled_path: path.with_name(path.name + "_temp_name_" + str(hash(path))).
\* The result is another path of the same directory: it extends the name, so
\* it differs from `path`, and two paths never share a mangled path.
mangled_path(path) == Append(path, TempSuffix)

----------------------------------------------------------------------------
(* EnumeratedFiles *)

keys(d) == {d[n].key : n \in DOMAIN d}

values(d) == {d[n].path : n \in DOMAIN d}

\* A constructor check whose comparison can never be true.
RepeatedPath_greater(d) == Cardinality(values(d)) > Len(d)

\* EnumeratedFiles.__init__: len(set(values)) != len(values) raises ValueError.
RepeatedPath(d) == Cardinality(values(d)) # Len(d)

\* EnumeratedFiles.__getitem__ on a key the dict holds.
getitem(d, key) == LET n == CHOOSE n \in DOMAIN d : d[n].key = key IN d[n].path

\* dict.pop(key): the items without the one of `key`, order kept.
RECURSIVE pop(_, _)
pop(d, key) ==
    IF d = <<>> THEN <<>>
    ELSE IF Head(d).key = key THEN Tail(d)
    ELSE <<Head(d)>> \o pop(Tail(d), key)

\* A same_keys that only asks that no index of the original is missing.
same_keys_subset(self, other) == keys(self) \subseteq keys(other)

same_keys(self, other) == keys(self) = keys(other)

\* A has_collision that looks the original path up among the new paths.
has_collision_swapped(self, new, key) ==
    LET temp == pop(new, key) IN getitem(self, key) \in values(temp)

has_collision(self, new, key) ==
    LET temp == pop(self, key) IN getitem(new, key) \in values(temp)

\* A has_collision whose temp is self itself: the pop removes key from self.
self_after_pop(self, key) == pop(self, key)

\* What self holds when has_collision returns: temp is a deepcopy, so the
\* pop of lines 94-96 leaves self as it was.
self_after_has_collision(self, key) == self

----------------------------------------------------------------------------
(* The filesystem *)

exists(f, path) == path \in DOMAIN f

\* A move that leaves the source where it was: a copy.
replace_keeping_source(f, current_path, new_path) ==
    [p \in DOMAIN f \cup {new_path} |->
        IF p = new_path THEN f[current_path] ELSE f[p]]

\* Path.replace (os.replace) with the source present: the file moves to
\* new_path, replacing whatever is there.
replace(f, current_path, new_path) ==
    [p \in (DOMAIN f \ {current_path}) \cup {new_path} |->
        IF p = new_path THEN f[current_path] ELSE f[p]]

\* A safe_rename without the existence check of lines 26-27.
safe_rename_unguarded(f, current_path, new_path) ==
    IF current_path = new_path THEN "return"
    ELSE IF ~exists(f, current_path) THEN "FileNotFoundError"
    ELSE "renamed"

\* safe_rename: what one call does, as the outcome and the filesystem after.
safe_rename_outcome(f, current_path, new_path) ==
    IF exists(f, new_path) THEN "FileExistsError"
    ELSE IF current_path = new_path THEN "return"
    ELSE IF ~exists(f, current_path) THEN "FileNotFoundError"
    ELSE "renamed"

safe_rename_fs(f, current_path, new_path) ==
    IF safe_rename_outcome(f, current_path, new_path) = "renamed"
    THEN replace(f, current_path, new_path)
    ELSE f

\* The record of one safe_rename call: its arguments, what it did, and the
\* loop (and the position in it) that issued it.
Call(f, current_path, new_path, loop, position) ==
    [src |-> current_path, dst |-> new_path,
     outcome |-> safe_rename_outcome(f, current_path, new_path),
     loop |-> loop, at |-> position]

----------------------------------------------------------------------------
(* Inputs of the reconciler *)

Keys == {0, 1, 2}

a == <<"a">>
b == <<"b">>
c == <<"c">>

\* The names a caller may put in a manifest: three plain names and the name
\* mangled_path gives to b (a caller may type any name, that one too).
Names == {a, b, c, mangled_path(b)}

\* Every path the reconciler can touch for manifests over Names.
Universe == Names \cup {mangled_path(p) : p \in Names}

\* How many files may exist beforehand at paths the original manifest does
\* not name, and how many paths of the original manifest may have no file.
MaxStray == 1
MaxMissing == 1

Injective(f) == \A x, y \in DOMAIN f : f[x] = f[y] => x = y

KeySeqs == {ks \in UNION {[1..n -> Keys] : n \in 0..Cardinality(Keys)} : Injective(ks)}

\* The EnumeratedFiles objects the constructor accepts, for a key order.
Manifests(ks) ==
    {[n \in DOMAIN ks |-> [key |-> ks[n], path |-> ps[n]]] :
        ps \in {f \in [DOMAIN ks -> Names] : Injective(f)}}

Sorted(ks) == \A m, n \in DOMAIN ks : m < n => ks[m] < ks[n]

Descending(ks) == \A m, n \in DOMAIN ks : m < n => ks[m] > ks[n]

SmallSubsets(S, n) == {T \in SUBSET S : Cardinality(T) <= n}

\* A call of rename_files.  The original manifest iterates in ascending or
\* in descending key order (rename_files iterates original_paths and only
\* looks new_paths up by key, so the paths carry every other arrangement);
\* the edited manifest is kept in ascending key order.
Init ==
    /\ original_paths \in
          UNION {Manifests(ks) : ks \in {s \in KeySeqs : Sorted(s) \/ Descending(s)}}
    /\ new_paths \in UNION {Manifests(ks) : ks \in {s \in KeySeqs : Sorted(s)}}
    /\ \E missing \in SmallSubsets(values(original_paths), MaxMissing),
          stray \in SmallSubsets(Universe \ values(original_paths), MaxStray) :
            fs0 = [p \in (values(original_paths) \ missing) \cup stray |-> p]
    /\ fs = fs0
    /\ pc = "same_keys"
    /\ idx = 1
    /\ temp_names = <<>>
    /\ ridx = 1
    /\ err = "none"
    /\ calls = <<>>
    /\ lpc = "rename_files"
    /\ files = <<>>
    /\ tmpfile = <<>>
    /\ text = <<>>
    /\ enumerated_files = <<>>
    /\ lerr = "none"
    /\ steps = <<>>

----------------------------------------------------------------------------
(* RenamePlugin.rename_files *)

\* Lines 124-129: the index sets are compared; a mismatch raises KeyError.
CheckKeys ==
    /\ pc = "same_keys"
    /\ IF same_keys(original_paths, new_paths)
       THEN /\ pc' = "primary"
            /\ err' = err
       ELSE /\ pc' = "raised"
            /\ err' = "KeyError"
    /\ idx' = 1
    /\ temp_names' = <<>>
    /\ UNCHANGED <<fs, fs0, original_paths, new_paths, ridx, calls, lvars>>

\* Lines 130-141: one iteration of the loop over original_paths.items().
PrimaryStep ==
    /\ pc = "primary"
    /\ idx <= Len(original_paths)
    /\ LET key == original_paths[idx].key
           old_name == original_paths[idx].path
           new_name == getitem(new_paths, key)
           collision == has_collision(original_paths, new_paths, key)
           target == IF collision THEN mangled_path(new_name) ELSE new_name
           outcome == safe_rename_outcome(fs, old_name, target)
       IN IF new_name = old_name
          THEN /\ idx' = idx + 1
               /\ UNCHANGED <<fs, temp_names, calls, pc, err>>
          ELSE /\ temp_names' =
                    IF collision
                    THEN Append(temp_names, [name |-> new_name, temp_name |-> target])
                    ELSE temp_names
               /\ calls' = Append(calls, Call(fs, old_name, target, "primary", idx))
               /\ fs' = safe_rename_fs(fs, old_name, target)
               /\ IF outcome \in {"renamed", "return"}
                  THEN /\ idx' = idx + 1
                       /\ UNCHANGED <<pc, err>>
                  ELSE /\ pc' = "raised"
                       /\ err' = outcome
                       /\ idx' = idx
    /\ original_paths' =
          IF getitem(new_paths, original_paths[idx].key) = original_paths[idx].path
          THEN original_paths
          ELSE self_after_has_collision(original_paths, original_paths[idx].key)
    /\ UNCHANGED <<fs0, new_paths, ridx, lvars>>

\* A restore loop that starts while the primary loop still has items left.
StartRestore_early ==
    /\ pc = "primary"
    /\ pc' = "restore"
    /\ ridx' = 1
    /\ UNCHANGED <<fs, fs0, original_paths, new_paths, idx, temp_names, err, calls, lvars>>

\* Line 144: the primary loop is exhausted, the restore loop starts.
StartRestore ==
    /\ pc = "primary"
    /\ idx > Len(original_paths)
    /\ pc' = "restore"
    /\ ridx' = 1
    /\ UNCHANGED <<fs, fs0, original_paths, new_paths, idx, temp_names, err, calls, lvars>>

\* Lines 144-145: one iteration of the loop over temp_names.
RestoreStep ==
    /\ pc = "restore"
    /\ ridx <= Len(temp_names)
    /\ LET record == temp_names[ridx]
           outcome == safe_rename_outcome(fs, record.temp_name, record.name)
       IN /\ calls' = Append(calls, Call(fs, record.temp_name, record.name, "restore", ridx))
          /\ fs' = safe_rename_fs(fs, record.temp_name, record.name)
          /\ IF outcome \in {"renamed", "return"}
             THEN /\ ridx' = ridx + 1
                  /\ UNCHANGED <<pc, err>>
             ELSE /\ pc' = "raised"
                  /\ err' = outcome
                  /\ ridx' = ridx
    /\ UNCHANGED <<fs0, original_paths, new_paths, idx, temp_names, lvars>>

\* rename_files returns.
Return ==
    /\ pc = "restore"
    /\ ridx > Len(temp_names)
    /\ pc' = "done"
    /\ UNCHANGED <<fs, fs0, original_paths, new_paths, idx, temp_names, ridx, err, calls, lvars>>

Next == CheckKeys \/ PrimaryStep \/ StartRestore \/ RestoreStep \/ Return

Spec == Init /\ [][Next]_vars

----------------------------------------------------------------------------
(* Text: EnumeratedFiles.__str__, from_list and from_str *)

Digit == <<"0", "1", "2", "3", "4", "5", "6", "7", "8", "9">>

\* What the pattern's \d and \s match, and what . does not.
IsDigit(ch) == \E d \in DOMAIN Digit : Digit[d] = ch
Whitespace == {" ", "\t", "\n", "\r", "\f"}
IsSpace(ch) == ch \in Whitespace
Newline == "\n"

\* Path(file_path).  pathlib turns the empty string into "."; its other
\* normalisations act on "/" and "." components, which no alphabet here has.
Path(file_path) == IF file_path = <<>> THEN <<".">> ELSE file_path

\* f"{i}" of a non-negative int: its decimal digits.
RECURSIVE format_int(_)
format_int(i) ==
    IF i < 10 THEN <<Digit[i + 1]>>
    ELSE format_int(i \div 10) \o <<Digit[(i % 10) + 1]>>

\* int(match.group(1)) of a string of digits.
RECURSIVE int(_)
int(digits) ==
    IF digits = <<>> THEN 0
    ELSE 10 * int(SubSeq(digits, 1, Len(digits) - 1))
         + (CHOOSE d \in 0..9 : Digit[d + 1] = digits[Len(digits)])

\* EnumeratedFiles.__str__: f"{i}; {file_path}\n" per item, in dict order.
RECURSIVE str(_)
str(d) ==
    IF d = <<>> THEN <<>>
    ELSE format_int(Head(d).key) \o <<";", " ">> \o Head(d).path \o <<Newline>>
         \o str(Tail(d))

\* EnumeratedFiles.from_list, before the constructor: keys 0..n-1 in order.
from_list(file_list) ==
    [n \in DOMAIN file_list |-> [key |-> n - 1, path |-> Path(file_list[n])]]

\* text.split("\n")
RECURSIVE split(_)
split(t) ==
    IF \A n \in DOMAIN t : t[n] # Newline THEN <<t>>
    ELSE LET n == CHOOSE n \in DOMAIN t :
                      t[n] = Newline /\ \A m \in 1..(n - 1) : t[m] # Newline
         IN <<SubSeq(t, 1, n - 1)>> \o split(SubSeq(t, n + 1, Len(t)))

\* The first position from p on that does not hold a digit (Len + 1 if none).
DigitsEnd(line, p) ==
    CHOOSE e \in p..(Len(line) + 1) :
        /\ \A n \in p..(e - 1) : IsDigit(line[n])
        /\ e <= Len(line) => ~IsDigit(line[e])

\* The first position from p on that does not hold whitespace.
SpaceEnd(line, p) ==
    CHOOSE e \in p..(Len(line) + 1) :
        /\ \A n \in p..(e - 1) : IsSpace(line[n])
        /\ e <= Len(line) => ~IsSpace(line[e])

\* Whether (\d+)\s*;\s*(.*\S).* matches `line` from position s.  \d+ and the
\* two \s* are greedy and giving characters back cannot help them (what
\* follows a shorter run is a digit, or whitespace, where ";" is wanted), so
\* the digits are the whole run from s, ";" follows the whitespace after
\* it, and (.*\S) needs one character that is not whitespace after that.
MatchesAt(line, s) ==
    /\ IsDigit(line[s])
    /\ LET semicolon == SpaceEnd(line, DigitsEnd(line, s))
       IN /\ semicolon <= Len(line)
          /\ line[semicolon] = ";"
          /\ SpaceEnd(line, semicolon + 1) <= Len(line)

\* A (.*\S) that stops at the first character that is not whitespace.
group2_end_lazy(line, from) == from

\* Where group 2 ends: .* is greedy, so at the last character of the line
\* that is not whitespace.
group2_end(line, from) ==
    CHOOSE e \in from..Len(line) :
        ~IsSpace(line[e]) /\ \A n \in (e + 1)..Len(line) : IsSpace(line[n])

\* re.search(regex_pattern, line) on a line without "\n": the match at the
\* leftmost position that has one, as <<[group1, group2]>>; <<>> is None.
search_start(line) == {s \in DOMAIN line : MatchesAt(line, s)}

search(line) ==
    IF search_start(line) = {} THEN <<>>
    ELSE LET s == CHOOSE s \in search_start(line) :
                      \A u \in search_start(line) : s <= u
             e == DigitsEnd(line, s)
             from == SpaceEnd(line, SpaceEnd(line, e) + 1)
         IN <<[group1 |-> SubSeq(line, s, e - 1),
               group2 |-> SubSeq(line, from, group2_end(line, from))]>>

\* A dict assignment that keeps the value a key already has.
dict_setdefault(d, key, path) ==
    IF key \in keys(d) THEN d ELSE Append(d, [key |-> key, path |-> path])

\* enumerated_files[i] = path: a new key goes last, a known key keeps its
\* place and takes the new value.
dict_set(d, key, path) ==
    IF key \in keys(d)
    THEN [n \in DOMAIN d |-> IF d[n].key = key THEN [key |-> key, path |-> path] ELSE d[n]]
    ELSE Append(d, [key |-> key, path |-> path])

\* The loop of from_str over the lines, from the dict d.
RECURSIVE from_lines(_, _)
from_lines(d, lines) ==
    IF lines = <<>> THEN d
    ELSE LET match == search(Head(lines))
         IN from_lines(IF match = <<>> THEN d
                       ELSE dict_set(d, int(match[1].group1), Path(match[1].group2)),
                       Tail(lines))

\* EnumeratedFiles.from_str, before the constructor.
from_str(t) == from_lines(<<>>, split(t))

RECURSIVE join(_)
join(lines) ==
    IF lines = <<>> THEN <<>>
    ELSE IF Len(lines) = 1 THEN lines[1]
    ELSE lines[1] \o <<Newline>> \o join(Tail(lines))

SeqsUpTo(S, n) == UNION {[1..m -> S] : m \in 0..n}

----------------------------------------------------------------------------
(* The codec alone: str then from_str of a manifest, or from_str of a text *)

Alphabet == {"a", "1", " ", ";", Newline}

MaxPathLen == 2
MaxTextLen == 5
MaxLines == 3

\* Path objects never hold the empty string.
CodecPaths == SeqsUpTo(Alphabet, MaxPathLen) \ {<<>>}

\* The index orders of the manifests encoded: none, one, or two indices
\* (one of two digits) in either order.
CodecKeySeqs == {<<>>, <<0>>, <<12>>, <<0, 12>>, <<12, 0>>}

\* Lines an editor user leaves in a manifest: entries for two indices and
\* two names, written tightly or loosely, a blank line and a line of text.
CodecLines ==
    {k \o sep \o n : k \in {<<"0">>, <<"1">>},
                     sep \in {<<";">>, <<" ", ";", " ">>},
                     n \in {a, b}}
    \cup {<<>>, <<"a">>}

CodecTexts ==
    SeqsUpTo(Alphabet, MaxTextLen) \cup {join(ls) : ls \in SeqsUpTo(CodecLines, MaxLines)}

InitCodec ==
    /\ \/ /\ lpc = "str"
          /\ \E ks \in CodecKeySeqs : \E ps \in [DOMAIN ks -> CodecPaths] :
                /\ Injective(ps)
                /\ original_paths = [n \in DOMAIN ks |-> [key |-> ks[n], path |-> ps[n]]]
          /\ text = <<>>
       \/ /\ lpc = "from_str"
          /\ original_paths = <<>>
          /\ text \in CodecTexts
    /\ new_paths = <<>>
    /\ enumerated_files = <<>>
    /\ lerr = "none"
    /\ steps = <<>>
    /\ files = <<>>
    /\ tmpfile = <<>>
    /\ fs0 = <<>>
    /\ fs = fs0
    /\ pc = "idle"
    /\ idx = 1
    /\ temp_names = <<>>
    /\ ridx = 1
    /\ err = "none"
    /\ calls = <<>>

\* str(manifest)
CodecStr ==
    /\ lpc = "str"
    /\ text' = str(original_paths)
    /\ lpc' = "from_str"
    /\ steps' = Append(steps, "str")
    /\ UNCHANGED <<rvars, files, tmpfile, enumerated_files, lerr>>

\* EnumeratedFiles.from_str(text): the dict is filled, then the constructor
\* accepts it or raises ValueError.
CodecFromStr ==
    /\ lpc = "from_str"
    /\ enumerated_files' = from_str(text)
    /\ steps' = Append(steps, "from_str")
    /\ IF RepeatedPath(enumerated_files')
       THEN /\ lerr' = "ValueError"
            /\ lpc' = "raised"
            /\ UNCHANGED new_paths
       ELSE /\ new_paths' = enumerated_files'
            /\ lpc' = "decoded"
            /\ UNCHANGED lerr
    /\ UNCHANGED <<fs, fs0, original_paths, pc, idx, temp_names, ridx, err, calls>>
    /\ UNCHANGED <<files, tmpfile, text>>

NextCodec == CodecStr \/ CodecFromStr

SpecCodec == InitCodec /\ [][NextCodec]_vars

----------------------------------------------------------------------------
(* RenamePlugin.logic *)

MaxFiles == 2
MaxEditLines == 2

\* The files the user may have selected.
FileNames == {a, b}

\* Lines the user may leave in the edited manifest.
EditorLines ==
    {k \o <<";", " ">> \o n : k \in {<<"0">>, <<"1">>}, n \in Names} \cup {<<"#">>}

EditorTexts == {join(ls) : ls \in SeqsUpTo(EditorLines, MaxEditLines)}

InitLogic ==
    /\ files \in SeqsUpTo(FileNames, MaxFiles)
    /\ \E stray \in SmallSubsets(Universe \ FileNames, MaxStray) :
          fs0 = [p \in {files[n] : n \in DOMAIN files} \cup stray |-> p]
    /\ fs = fs0
    /\ lpc = "from_list"
    /\ original_paths = <<>>
    /\ new_paths = <<>>
    /\ tmpfile = <<>>
    /\ text = <<>>
    /\ enumerated_files = <<>>
    /\ lerr = "none"
    /\ steps = <<>>
    /\ pc = "idle"
    /\ idx = 1
    /\ temp_names = <<>>
    /\ ridx = 1
    /\ err = "none"
    /\ calls = <<>>

\* Line 155: EnumeratedFiles.from_list(files).
FromList ==
    /\ lpc = "from_list"
    /\ steps' = Append(steps, "from_list")
    /\ IF RepeatedPath(from_list(files))
       THEN /\ lerr' = "ValueError"
            /\ lpc' = "raised"
            /\ UNCHANGED original_paths
       ELSE /\ original_paths' = from_list(files)
            /\ lpc' = "write"
            /\ UNCHANGED lerr
    /\ UNCHANGED <<fs, fs0, new_paths, pc, idx, temp_names, ridx, err, calls>>
    /\ UNCHANGED <<files, tmpfile, text, enumerated_files>>

\* Lines 157-158: the manifest text is written to the temporary file.
Write ==
    /\ lpc = "write"
    /\ tmpfile' = str(original_paths)
    /\ lpc' = "editor"
    /\ steps' = Append(steps, "write")
    /\ UNCHANGED <<rvars, files, text, enumerated_files, lerr>>

\* An editor_check for subprocess.run(..., check=False).
editor_unchecked(returncode) == "none"

\* Lines 161-168: subprocess.run(check=True) raises CalledProcessError on a
\* non-zero exit, and the handler calls sys.exit.
editor_check(returncode) == IF returncode # 0 THEN "SystemExit" ELSE "none"

\* Lines 162-164: the editor runs on the temporary file and exits; whatever
\* its exit code, it may have rewritten the file.
Editor ==
    /\ lpc = "editor"
    /\ \E returncode \in {0, 1}, edited \in EditorTexts \cup {tmpfile} :
          /\ tmpfile' = edited
          /\ steps' = Append(steps, IF returncode = 0 THEN "editor_ok" ELSE "editor_failed")
          /\ lerr' = editor_check(returncode)
          /\ lpc' = IF editor_check(returncode) = "none" THEN "read" ELSE "raised"
    /\ UNCHANGED <<rvars, files, text, enumerated_files>>

\* Line 170: text = reader(fp.name).
Read ==
    /\ lpc = "read"
    /\ text' = tmpfile
    /\ lpc' = "from_str"
    /\ steps' = Append(steps, "read")
    /\ UNCHANGED <<rvars, files, tmpfile, enumerated_files, lerr>>

\* Lines 172-175: new_paths = EnumeratedFiles.from_str(text), and with it
\* rename_files is entered.
FromStr ==
    /\ lpc = "from_str"
    /\ enumerated_files' = from_str(text)
    /\ steps' = Append(steps, "from_str")
    /\ IF RepeatedPath(enumerated_files')
       THEN /\ lerr' = "ValueError"
            /\ lpc' = "raised"
            /\ UNCHANGED <<new_paths, pc>>
       ELSE /\ new_paths' = enumerated_files'
            /\ lpc' = "rename_files"
            /\ pc' = "same_keys"
            /\ UNCHANGED lerr
    /\ UNCHANGED <<fs, fs0, original_paths, idx, temp_names, ridx, err, calls>>
    /\ UNCHANGED <<files, tmpfile, text>>

\* rename_files returned: logic returns.
LogicReturns ==
    /\ lpc = "rename_files"
    /\ pc = "done"
    /\ lpc' = "returned"
    /\ steps' = Append(steps, "rename_files")
    /\ UNCHANGED <<rvars, files, tmpfile, text, enumerated_files, lerr>>

\* Lines 176-178: rename_files raised.  KeyError and FileExistsError enter
\* the handler, whose logger.exception() lacks its msg argument and raises
\* TypeError; any other exception leaves logic as it is.
LogicExcept ==
    /\ lpc = "rename_files"
    /\ pc = "raised"
    /\ lpc' = "raised"
    /\ lerr' = IF err \in {"KeyError", "FileExistsError"} THEN "TypeError" ELSE err
    /\ steps' = Append(steps, "rename_files")
    /\ UNCHANGED <<rvars, files, tmpfile, text, enumerated_files>>

NextLogic ==
    \/ FromList \/ Write \/ Editor \/ Read \/ FromStr
    \/ CheckKeys \/ PrimaryStep \/ StartRestore \/ RestoreStep \/ Return
    \/ LogicReturns \/ LogicExcept

SpecLogic == InitLogic /\ [][NextLogic]_vars

----------------------------------------------------------------------------
(* Vocabulary of the claims about rename_files *)

Finished == pc \in {"done", "raised"}

SameIndexSet == keys(original_paths) = keys(new_paths)

Original(k) == getitem(original_paths, k)
Edited(k) == getitem(new_paths, k)

\* The index k is scheduled to change.
Changed(k) == Edited(k) # Original(k)

\* Section 4.2 step 3: the new path of k is the original path of another index.
Collides(k) == \E j \in keys(original_paths) : j # k /\ Original(j) = Edited(k)

TempNames == {mangled_path(p) : p \in values(new_paths)}

\* The filesystem after the renames that `cs` records as performed.
RECURSIVE Replay(_, _)
Replay(f, cs) ==
    IF cs = <<>> THEN f
    ELSE Replay(IF Head(cs).outcome = "renamed"
                THEN replace(f, Head(cs).src, Head(cs).dst)
                ELSE f,
                Tail(cs))

Renames == {n \in DOMAIN calls : calls[n].outcome = "renamed"}

----------------------------------------------------------------------------
(* C1 *)

C1_Pre ==
    /\ SameIndexSet
    /\ \A p \in values(original_paths) : exists(fs0, p)
    /\ \A p \in values(new_paths) \ values(original_paths) : ~exists(fs0, p)
    /\ \A p \in TempNames : ~exists(fs0, p)

C1_Post ==
    /\ pc = "done"
    /\ err = "none"
    /\ \A k \in keys(original_paths) :
          exists(fs, Edited(k)) /\ fs[Edited(k)] = fs0[Original(k)]
    /\ \A p \in TempNames : ~exists(fs, p)
    /\ {p \in values(original_paths) \cup values(new_paths) : exists(fs, p)}
          = values(new_paths)

\* C1: from manifests with the same index set and distinct paths, on a
\* filesystem with a file at every original path, none at an edited path that
\* is not an original path and none at a temp name, rename_files returns
\* without error with the file of original[k] at edited[k] for every k, no
\* file at a temp name, and exactly the edited paths occupied.
C1_AsClaimed == (Finished /\ C1_Pre) => C1_Post

\* No edited path is the temp name of an edited path.
NoTempNameEdited == values(new_paths) \cap TempNames = {}

\* C1 holds of every run in which the caller typed no temp name.
C1_WithoutTempNames == (Finished /\ C1_Pre /\ NoTempNameEdited) => C1_Post

\* A three-cycle has been renamed successfully.
C1_Witness ==
    /\ pc = "done"
    /\ C1_Pre
    /\ C1_Post
    /\ Len(original_paths) = 3
    /\ \A k \in keys(original_paths) : Changed(k) /\ Collides(k)

----------------------------------------------------------------------------
(* C2 *)

\* C2: when the index sets differ, rename_files raises KeyError and has
\* issued no rename: the filesystem is the one before the call.
C2_KeyMismatch ==
    (~SameIndexSet /\ pc # "same_keys") =>
        /\ pc = "raised"
        /\ err = "KeyError"
        /\ calls = <<>>
        /\ fs = fs0

\* The call failed on an index added to edited, over a filesystem with files.
C2_Witness ==
    /\ pc = "raised"
    /\ err = "KeyError"
    /\ keys(original_paths) \subseteq keys(new_paths)
    /\ keys(original_paths) # keys(new_paths)
    /\ \E k \in keys(original_paths) : Changed(k)
    /\ DOMAIN fs0 # {}

----------------------------------------------------------------------------
(* C3 *)

\* C3: a safe_rename call (primary or restore) whose target exists when it
\* is attempted raises FileExistsError, is the last call issued, and leaves
\* the filesystem as the renames before it made it.
C3_TargetExists ==
    \A n \in DOMAIN calls :
        LET before == Replay(fs0, SubSeq(calls, 1, n - 1))
        IN exists(before, calls[n].dst) =>
              /\ calls[n].outcome = "FileExistsError"
              /\ n = Len(calls)
              /\ pc = "raised"
              /\ err = "FileExistsError"
              /\ fs = before

\* A primary rename failed on an existing target after an earlier rename was
\* performed, with a restore still recorded and never run.
C3_Witness ==
    /\ pc = "raised"
    /\ err = "FileExistsError"
    /\ Len(calls) >= 2
    /\ calls[Len(calls)].loop = "primary"
    /\ Renames # {}
    /\ temp_names # <<>>
    /\ fs # fs0

\* A restore rename failed on an existing target.
C3_WitnessRestore ==
    /\ pc = "raised"
    /\ err = "FileExistsError"
    /\ calls[Len(calls)].loop = "restore"

----------------------------------------------------------------------------
(* C4 *)

\* C4: no safe_rename call has as its source the original path of an index
\* whose edited path equals its original path.
C4_AsClaimed ==
    SameIndexSet =>
        \A k \in keys(original_paths) :
            ~Changed(k) => \A n \in DOMAIN calls : calls[n].src # Original(k)

\* The part of C4 the code keeps: the primary loop issues no call for an
\* unchanged index, and rename_files(m, m) issues no call at all.
C4_PrimarySkipsUnchanged ==
    SameIndexSet =>
        /\ \A n \in DOMAIN original_paths :
              ~Changed(original_paths[n].key) =>
                  \A j \in DOMAIN calls :
                      calls[j].loop = "primary" =>
                          calls[j].at # n /\ calls[j].src # original_paths[n].path
        /\ (\A k \in keys(original_paths) : ~Changed(k)) => calls = <<>> /\ fs = fs0

\* rename_files(m, m) returned, for a manifest of three files.
C4_Witness ==
    /\ pc = "done"
    /\ Len(original_paths) = 3
    /\ \A k \in keys(original_paths) : ~Changed(k)

----------------------------------------------------------------------------
(* C10 *)

\* The primary calls issued for position n of original_paths.
PrimaryCalls(n) == {j \in DOMAIN calls : calls[j].loop = "primary" /\ calls[j].at = n}

Records(name) == {j \in DOMAIN temp_names : temp_names[j].name = name}

\* C10: the primary rename of a changed index k goes from original[k] to the
\* temp name of edited[k], with one restore record for edited[k], exactly when
\* edited[k] is the original path of another index; otherwise it goes from
\* original[k] to edited[k] itself and no restore record is made for k.  One
\* primary rename is issued for every changed index the loop has passed.
C10_TempIffCollision ==
    SameIndexSet =>
        \A n \in DOMAIN original_paths :
            LET k == original_paths[n].key
            IN Changed(k) =>
                /\ Cardinality(PrimaryCalls(n)) <= 1
                /\ (n < idx /\ pc # "same_keys") => Cardinality(PrimaryCalls(n)) = 1
                /\ (PrimaryCalls(n) = {}) => Records(Edited(k)) = {}
                /\ \A j \in PrimaryCalls(n) :
                      /\ calls[j].src = Original(k)
                      /\ IF Collides(k)
                         THEN /\ calls[j].dst = mangled_path(Edited(k))
                              /\ Cardinality(Records(Edited(k))) = 1
                              /\ \A r \in Records(Edited(k)) :
                                    temp_names[r].temp_name = mangled_path(Edited(k))
                         ELSE /\ calls[j].dst = Edited(k)
                              /\ Records(Edited(k)) = {}

\* A chain a -> b -> c was renamed: one primary rename to a temp name, one
\* direct, then the restore.
C10_Witness ==
    /\ pc = "done"
    /\ \E m, n \in DOMAIN original_paths :
          LET j == original_paths[m].key
              k == original_paths[n].key
          IN /\ Changed(j) /\ Collides(j)
             /\ Changed(k) /\ ~Collides(k)
             /\ \E x \in PrimaryCalls(m) :
                   calls[x].outcome = "renamed" /\ calls[x].dst = mangled_path(Edited(j))
             /\ \E y \in PrimaryCalls(n) :
                   calls[y].outcome = "renamed" /\ calls[y].dst = Edited(k)

----------------------------------------------------------------------------
(* Vocabulary of the claims about logic and the codec *)

Took(step) == \E n \in DOMAIN steps : steps[n] = step

\* Two different indices of the dict map to the same path.
DuplicatePath(d) == \E m, n \in DOMAIN d : m # n /\ d[m].path = d[n].path

\* The dict as a set of (index, path) pairs.
Mapping(d) == {<<d[n].key, d[n].path>> : n \in DOMAIN d}

NoRenameIssued == pc = "idle" /\ calls = <<>> /\ fs = fs0

----------------------------------------------------------------------------
(* C5 *)

\* C5: a manifest in which two indices map to the same path is not
\* constructed, ValueError is raised instead; when it is the decoded text
\* that holds the duplicate, logic ends there, rename_files is not entered
\* and no rename is issued.  Without a duplicate the manifest is constructed.
C5_DuplicatePath ==
    /\ Took("from_list") =>
          IF DuplicatePath(from_list(files))
          THEN lerr = "ValueError" /\ lpc = "raised" /\ original_paths = <<>>
                  /\ steps = <<"from_list">> /\ NoRenameIssued
          ELSE /\ original_paths = from_list(files)
               /\ steps = <<"from_list">> => (lpc = "write" /\ lerr = "none")
    /\ Took("from_str") =>
          IF DuplicatePath(enumerated_files)
          THEN lerr = "ValueError" /\ lpc = "raised" /\ new_paths = <<>>
                  /\ ~Took("rename_files") /\ NoRenameIssued
          ELSE new_paths = enumerated_files /\ lerr # "ValueError"

\* The edited text gave two indices the same path, for two selected files
\* that the user meant to rename.
C5_Witness ==
    /\ lpc = "raised"
    /\ lerr = "ValueError"
    /\ Took("from_str")
    /\ Len(enumerated_files) = 2
    /\ Len(original_paths) = 2
    /\ values(enumerated_files) \cap values(original_paths) = {}

----------------------------------------------------------------------------
(* C6 *)

\* C6: once the editor has exited non-zero, logic has ended with SystemExit:
\* the file is never read, the text never decoded, rename_files never
\* entered, and the filesystem is the one logic started with.
C6_EditorFailed ==
    Took("editor_failed") =>
        /\ lpc = "raised"
        /\ lerr = "SystemExit"
        /\ steps[Len(steps)] = "editor_failed"
        /\ text = <<>>
        /\ enumerated_files = <<>>
        /\ new_paths = <<>>
        /\ NoRenameIssued

\* The editor rewrote the manifest of two selected files into a swap and
\* then exited non-zero.
C6_Witness ==
    /\ Took("editor_failed")
    /\ Len(original_paths) = 2
    /\ ~RepeatedPath(from_str(tmpfile))
    /\ same_keys(original_paths, from_str(tmpfile))
    /\ \A n \in DOMAIN original_paths :
          getitem(from_str(tmpfile), original_paths[n].key) \in
              values(original_paths) \ {original_paths[n].path}

----------------------------------------------------------------------------
(* C7 *)

RoundTripDone == steps = <<"str", "from_str">>

\* C7: for every manifest with distinct paths, whatever characters the
\* paths hold, from_str(str(manifest)) is constructed and is the same
\* index-to-path mapping.
C7_AsClaimed ==
    RoundTripDone =>
        lerr = "none" /\ lpc = "decoded" /\ Mapping(new_paths) = Mapping(original_paths)

\* The path holds no newline and neither starts nor ends with whitespace.
Trimmed(path) ==
    /\ \A n \in DOMAIN path : path[n] # Newline
    /\ ~IsSpace(path[1])
    /\ ~IsSpace(path[Len(path)])

\* C7 amended: the round trip gives the same mapping for every manifest
\* whose paths hold no newline and neither start nor end with whitespace.
C7_RoundTrip ==
    (RoundTripDone /\ \A p \in values(original_paths) : Trimmed(p)) =>
        lerr = "none" /\ lpc = "decoded" /\ Mapping(new_paths) = Mapping(original_paths)

\* A manifest of two entries, with a two-digit index, a semicolon and a
\* digit in its paths, has made the round trip.
C7_Witness ==
    /\ RoundTripDone
    /\ lpc = "decoded"
    /\ Len(original_paths) = 2
    /\ \A p \in values(original_paths) : Trimmed(p) /\ Len(p) = 2
    /\ \E p \in values(original_paths) : p[1] = ";"
    /\ \E p \in values(original_paths) : p[1] = "1"
    /\ original_paths[1].key = 12

----------------------------------------------------------------------------
(* C8 *)

\* The whole line is: whitespace, digits, whitespace, ";", whitespace, a
\* non-empty path, whitespace.
EntryForm(line) ==
    \E d1, d2, semicolon \in DOMAIN line :
        /\ d1 <= d2 /\ d2 < semicolon
        /\ \A n \in 1..(d1 - 1) : IsSpace(line[n])
        /\ \A n \in d1..d2 : IsDigit(line[n])
        /\ \A n \in (d2 + 1)..(semicolon - 1) : IsSpace(line[n])
        /\ line[semicolon] = ";"
        /\ \E n \in (semicolon + 1)..Len(line) : ~IsSpace(line[n])

IsEntryForm(line) == EntryForm(line)

\* C8: a line gives an entry exactly when the whole line has the entry
\* form, and the decoded dict is the one decoded from those lines alone.
C8_AsClaimed ==
    Took("from_str") =>
        LET lines == split(text)
        IN /\ \A n \in DOMAIN lines :
                 (from_lines(<<>>, <<lines[n]>>) # <<>>) <=> EntryForm(lines[n])
           /\ enumerated_files = from_lines(<<>>, SelectSeq(lines, IsEntryForm))

\* A text with a line of instructions, a blank line and two entries was
\* decoded into the two entries.
C8_Witness ==
    /\ lpc = "decoded"
    /\ Len(split(text)) = 3
    /\ \E n \in DOMAIN split(text) : split(text)[n] = <<"a">>
    /\ \A n \in DOMAIN split(text) :
          (from_lines(<<>>, <<split(text)[n]>>) # <<>>) <=> EntryForm(split(text)[n])
    /\ Len(new_paths) = 2

----------------------------------------------------------------------------
(* C9 *)

\* What from_str's loop finds on each line of the text: search's result.
Found == LET lines == split(text) IN [n \in DOMAIN lines |-> search(lines[n])]

\* C9: the decoded dict maps every index of a matching line to the path of
\* the last matching line with that index, and ValueError is raised exactly
\* when two indices share a path in that dict.
C9_LastWins ==
    Took("from_str") =>
        LET found == Found
            matching == {n \in DOMAIN found : found[n] # <<>>}
            key == [n \in matching |-> int(found[n][1].group1)]
            path == [n \in matching |-> Path(found[n][1].group2)]
            decoded == {key[n] : n \in matching}
            last == [k \in decoded |->
                        CHOOSE n \in matching :
                            key[n] = k /\ \A m \in matching : key[m] = k => m <= n]
        IN /\ keys(enumerated_files) = decoded
           /\ Len(enumerated_files) = Cardinality(decoded)
           /\ \A k \in decoded : getitem(enumerated_files, k) = path[last[k]]
           /\ (lerr = "ValueError") <=>
                 \E j, k \in decoded : j # k /\ path[last[j]] = path[last[k]]
           /\ (lerr = "none") => (lpc = "decoded" /\ new_paths = enumerated_files)

\* An index was given twice, its first path is the path another index ends
\* with, and the manifest was constructed.
C9_Witness ==
    /\ lpc = "decoded"
    /\ Len(new_paths) = 2
    /\ LET found == Found
           matching == {n \in DOMAIN found : found[n] # <<>>}
           key == [n \in matching |-> int(found[n][1].group1)]
           path == [n \in matching |-> Path(found[n][1].group2)]
       IN \E m, n \in matching :
             /\ m < n
             /\ key[m] = key[n]
             /\ path[m] # path[n]
             /\ path[m] \in values(new_paths)

----------------------------------------------------------------------------
(* C11 *)

RestoreCalls == {j \in DOMAIN calls : calls[j].loop = "restore"}

\* The positions of original_paths whose primary rename went to a temp name.
Parked ==
    {n \in DOMAIN original_paths :
        PrimaryCalls(n) # {} /\ Collides(original_paths[n].key)}

\* The r-th position, in iteration order, of a set of positions.
Nth(S, r) == CHOOSE n \in S : Cardinality({m \in S : m < n}) = r - 1

\* C11: the calls are the primary renames of the changed indices in the
\* iteration order of original_paths, one each, then the restore renames of
\* the records in the order the records were made; a restore rename is
\* issued only when every changed index has had its primary rename, and no
\* primary rename follows a restore rename.
C11_CallOrder ==
    SameIndexSet =>
        /\ \A i, j \in DOMAIN calls :
              i < j =>
                 /\ calls[i].loop = "restore" => calls[j].loop = "restore"
                 /\ calls[i].loop = calls[j].loop => calls[i].at < calls[j].at
                 /\ calls[i].outcome \in {"renamed", "return"}
        /\ \A j \in DOMAIN calls \ RestoreCalls :
              /\ calls[j].at \in DOMAIN original_paths
              /\ LET k == original_paths[calls[j].at].key
                 IN /\ Changed(k)
                    /\ calls[j].src = Original(k)
                    /\ calls[j].dst \in {Edited(k), mangled_path(Edited(k))}
        /\ RestoreCalls # {} =>
              \A n \in DOMAIN original_paths :
                  Changed(original_paths[n].key) => PrimaryCalls(n) # {}
        /\ Len(temp_names) = Cardinality(Parked)
        /\ \A r \in DOMAIN temp_names :
              LET k == original_paths[Nth(Parked, r)].key
              IN /\ temp_names[r].name = Edited(k)
                 /\ temp_names[r].temp_name = mangled_path(Edited(k))
        /\ \A j \in RestoreCalls :
              /\ calls[j].at = j - Cardinality(DOMAIN calls \ RestoreCalls)
              /\ calls[j].at \in DOMAIN temp_names
              /\ calls[j].src = temp_names[calls[j].at].temp_name
              /\ calls[j].dst = temp_names[calls[j].at].name

\* A run returned after a direct rename and two restores, over an original
\* manifest that does not iterate in index order.
C11_Witness ==
    /\ pc = "done"
    /\ Cardinality(RestoreCalls) = 2
    /\ Len(calls) = 5
    /\ \A j \in DOMAIN calls : calls[j].outcome = "renamed"
    /\ \E m, n \in DOMAIN original_paths :
          m < n /\ original_paths[m].key > original_paths[n].key

----------------------------------------------------------------------------
(* rename_files beside another process: safe_rename in its two steps *)

\* How many files the other process creates during one run.
MaxExternal == 1

\* The content of a file the other process creates.
ExternalContent == <<"?">>

ExternalFiles(f) == {p \in DOMAIN f : f[p] = ExternalContent}

\* The arguments of the safe_rename call the run is at.
CurrentSource ==
    IF pc \in {"primary", "primary_replace"}
    THEN original_paths[idx].path
    ELSE temp_names[ridx].temp_name

CurrentTarget ==
    IF pc \in {"primary", "primary_replace"}
    THEN LET key == original_paths[idx].key
         IN IF has_collision(original_paths, new_paths, key)
            THEN mangled_path(getitem(new_paths, key))
            ELSE getitem(new_paths, key)
    ELSE temp_names[ridx].name

\* Lines 130-141 and 26-29: one iteration of the primary loop up to the
\* checks of safe_rename; the replace of line 30 is left to do.
PrimaryCheck ==
    /\ pc = "primary"
    /\ idx <= Len(original_paths)
    /\ LET key == original_paths[idx].key
           old_name == original_paths[idx].path
           new_name == getitem(new_paths, key)
           collision == has_collision(original_paths, new_paths, key)
           target == CurrentTarget
       IN IF new_name = old_name
          THEN /\ idx' = idx + 1
               /\ UNCHANGED <<temp_names, calls, pc, err>>
          ELSE /\ temp_names' =
                    IF collision
                    THEN Append(temp_names, [name |-> new_name, temp_name |-> target])
                    ELSE temp_names
               /\ IF exists(fs, target)
                  THEN /\ calls' = Append(calls, Call(fs, old_name, target, "primary", idx))
                       /\ pc' = "raised"
                       /\ err' = "FileExistsError"
                       /\ idx' = idx
                  ELSE IF old_name = target
                  THEN /\ calls' = Append(calls, Call(fs, old_name, target, "primary", idx))
                       /\ idx' = idx + 1
                       /\ UNCHANGED <<pc, err>>
                  ELSE /\ pc' = "primary_replace"
                       /\ UNCHANGED <<calls, idx, err>>
    /\ original_paths' =
          IF getitem(new_paths, original_paths[idx].key) = original_paths[idx].path
          THEN original_paths
          ELSE self_after_has_collision(original_paths, original_paths[idx].key)
    /\ UNCHANGED <<fs, fs0, new_paths, ridx, lvars>>

\* Line 30 in the primary loop: Path.replace, whatever is at the target now.
PrimaryReplace ==
    /\ pc = "primary_replace"
    /\ IF exists(fs, CurrentSource)
       THEN /\ fs' = replace(fs, CurrentSource, CurrentTarget)
            /\ calls' = Append(calls, [src |-> CurrentSource, dst |-> CurrentTarget,
                                       outcome |-> "renamed", loop |-> "primary", at |-> idx])
            /\ pc' = "primary"
            /\ idx' = idx + 1
            /\ err' = err
       ELSE /\ calls' = Append(calls, [src |-> CurrentSource, dst |-> CurrentTarget,
                                       outcome |-> "FileNotFoundError",
                                       loop |-> "primary", at |-> idx])
            /\ pc' = "raised"
            /\ err' = "FileNotFoundError"
            /\ UNCHANGED <<fs, idx>>
    /\ UNCHANGED <<fs0, original_paths, new_paths, temp_names, ridx, lvars>>

\* Lines 144-145 and 26-29: one iteration of the restore loop up to the
\* checks of safe_rename.
RestoreCheck ==
    /\ pc = "restore"
    /\ ridx <= Len(temp_names)
    /\ LET record == temp_names[ridx]
       IN IF exists(fs, record.name)
          THEN /\ calls' = Append(calls, Call(fs, record.temp_name, record.name, "restore", ridx))
               /\ pc' = "raised"
               /\ err' = "FileExistsError"
               /\ ridx' = ridx
          ELSE IF record.temp_name = record.name
          THEN /\ calls' = Append(calls, Call(fs, record.temp_name, record.name, "restore", ridx))
               /\ ridx' = ridx + 1
               /\ UNCHANGED <<pc, err>>
          ELSE /\ pc' = "restore_replace"
               /\ UNCHANGED <<calls, ridx, err>>
    /\ UNCHANGED <<fs, fs0, original_paths, new_paths, idx, temp_names, lvars>>

\* Line 30 in the restore loop.
RestoreReplace ==
    /\ pc = "restore_replace"
    /\ IF exists(fs, CurrentSource)
       THEN /\ fs' = replace(fs, CurrentSource, CurrentTarget)
            /\ calls' = Append(calls, [src |-> CurrentSource, dst |-> CurrentTarget,
                                       outcome |-> "renamed", loop |-> "restore", at |-> ridx])
            /\ pc' = "restore"
            /\ ridx' = ridx + 1
            /\ err' = err
       ELSE /\ calls' = Append(calls, [src |-> CurrentSource, dst |-> CurrentTarget,
                                       outcome |-> "FileNotFoundError",
                                       loop |-> "restore", at |-> ridx])
            /\ pc' = "raised"
            /\ err' = "FileNotFoundError"
            /\ UNCHANGED <<fs, ridx>>
    /\ UNCHANGED <<fs0, original_paths, new_paths, idx, temp_names, lvars>>

\* The other process creates a file at a path where there is none.
External ==
    /\ pc \notin {"done", "raised"}
    /\ Cardinality(ExternalFiles(fs)) < MaxExternal
    /\ \E p \in Universe \ DOMAIN fs :
          fs' = [q \in DOMAIN fs \cup {p} |-> IF q = p THEN ExternalContent ELSE fs[q]]
    /\ UNCHANGED <<fs0, original_paths, new_paths, pc, idx, temp_names, ridx, err, calls, lvars>>

NextRace ==
    \/ CheckKeys
    \/ PrimaryCheck
    \/ PrimaryReplace
    \/ StartRestore
    \/ RestoreCheck
    \/ RestoreReplace
    \/ Return
    \/ External

SpecRace == Init /\ [][NextRace]_vars

----------------------------------------------------------------------------
(* C12 *)

\* C12: beside a process that creates files at any moment, no step of
\* rename_files puts another file at a path where a file is.
C12_AsClaimed ==
    [][\A p \in DOMAIN fs : p \in DOMAIN fs' => fs'[p] = fs[p]]_vars

\* The part the checks of safe_rename keep: a target that exists when the
\* call checks it makes the call raise FileExistsError and nothing moves.
C12_CheckedTargets ==
    \A n \in DOMAIN calls :
        calls[n].outcome = "FileExistsError" => n = Len(calls) /\ pc = "raised"

\* safe_rename has passed its checks, and the other process has since put a
\* file at the target that line 30 is about to replace.
C12_Witness ==
    /\ pc \in {"primary_replace", "restore_replace"}
    /\ exists(fs, CurrentSource)
    /\ exists(fs, CurrentTarget)
    /\ fs[CurrentTarget] = ExternalContent

----------------------------------------------------------------------------
(* C13 *)

Contents(f) == {f[p] : p \in DOMAIN f}

\* C13: in every state of a run of rename_files on its own, the files on
\* disk are the files that were there before the call, each at one path.
C13_NoFileLost ==
    /\ Contents(fs) = Contents(fs0)
    /\ Cardinality(Contents(fs)) = Cardinality(DOMAIN fs)

\* A run failed with FileExistsError on a file that was at a temp name
\* beforehand, after it had moved a file.
C13_Witness ==
    /\ pc = "raised"
    /\ err = "FileExistsError"
    /\ Renames # {}
    /\ fs # fs0
    /\ exists(fs0, calls[Len(calls)].dst)
    /\ calls[Len(calls)].dst \in TempNames \ values(original_paths)

\* A run returned after moving every file of a three-cycle, beside a file
\* that neither manifest names.
C13_WitnessDone ==
    /\ pc = "done"
    /\ Len(calls) = 6
    /\ \E p \in DOMAIN fs0 : p \notin values(original_paths) \cup values(new_paths)

----------------------------------------------------------------------------
(* C14 *)

\* Every call goes from original[k] or the temp name of edited[k] to
\* edited[k] or the temp name of edited[k], for a changed index k.
CallsOfChangedIndices ==
    \A n \in DOMAIN calls :
        \E k \in keys(original_paths) :
            /\ Changed(k)
            /\ calls[n].src \in {Original(k), mangled_path(Edited(k))}
            /\ calls[n].dst \in {Edited(k), mangled_path(Edited(k))}

\* The paths of no manifest that are no temp name either.
Outside == DOMAIN fs0 \ (values(original_paths) \cup values(new_paths) \cup TempNames)

Untouched(p) == \A n \in DOMAIN calls : calls[n].src # p /\ calls[n].dst # p

Kept(p) == exists(fs, p) /\ fs[p] = fs0[p]

\* C14: every call is one of a changed index, and so a file at the path of
\* an unchanged index, or at a path outside the manifests and temp names, is
\* the source or target of no call and stays what it was.
C14_AsClaimed ==
    SameIndexSet =>
        /\ CallsOfChangedIndices
        /\ \A k \in keys(original_paths) :
              (~Changed(k) /\ exists(fs0, Original(k))) =>
                  Untouched(Original(k)) /\ Kept(Original(k))
        /\ \A p \in Outside : Untouched(p) /\ Kept(p)

\* The part of C14 the code keeps: the calls are those of changed indices,
\* files outside are in no call, and a file at the path of an unchanged
\* index stays where and what it was.
C14_FilesKept ==
    SameIndexSet =>
        /\ CallsOfChangedIndices
        /\ \A k \in keys(original_paths) :
              (~Changed(k) /\ exists(fs0, Original(k))) => Kept(Original(k))
        /\ \A p \in Outside : Untouched(p) /\ Kept(p)

\* A run returned after a swap, beside the file of an unchanged index and a
\* file that no manifest names.
C14_Witness ==
    /\ pc = "done"
    /\ Len(calls) = 4
    /\ \A n \in DOMAIN calls : calls[n].outcome = "renamed"
    /\ \E k \in keys(original_paths) : ~Changed(k) /\ exists(fs0, Original(k))
    /\ Outside # {}

----------------------------------------------------------------------------
(* C15 *)

\* C15: no step of rename_files, the collision check included, changes the
\* original or the edited manifest.
C15_ManifestsKept ==
    [][original_paths' = original_paths /\ new_paths' = new_paths]_vars

\* A run failed after two collision checks on a manifest of three files, one
\* of them answered yes.
C15_Witness ==
    /\ pc = "raised"
    /\ err = "FileExistsError"
    /\ Len(original_paths) = 3
    /\ Len(calls) = 2
    /\ Len(temp_names) = 1

\* A run returned after three collision checks that all answered yes.
C15_WitnessDone ==
    /\ pc = "done"
    /\ Len(original_paths) = 3
    /\ Len(temp_names) = 3

----------------------------------------------------------------------------
(* C16 *)

\* The calls of safe_rename with current_path = new_path.
SamePathCalls == {n \in DOMAIN calls : calls[n].src = calls[n].dst}

\* The filesystem the n-th call found.
Before(n) == Replay(fs0, SubSeq(calls, 1, n - 1))

\* C16: a safe_rename call with current_path = new_path returns without an
\* error and moves nothing, whether or not a file is at that path.
C16_AsClaimed ==
    \A n \in SamePathCalls :
        /\ calls[n].outcome = "return"
        /\ n = Len(calls) => (err = "none" /\ fs = Before(n))

\* The part of C16 the code keeps: with no file at the path the call returns
\* without an error; with a file there it raises FileExistsError.  Nothing
\* moves in either case.
C16_NoOpUnlessExists ==
    \A n \in SamePathCalls :
        /\ calls[n].outcome =
              IF exists(Before(n), calls[n].src) THEN "FileExistsError" ELSE "return"
        /\ n = Len(calls) => fs = Before(n)

\* safe_rename was called with current_path = new_path and a file there.
C16_Witness ==
    \E n \in SamePathCalls : exists(Before(n), calls[n].src)

\* safe_rename was called with current_path = new_path and no file there.
C16_WitnessAbsent ==
    \E n \in SamePathCalls : ~exists(Before(n), calls[n].src)

====
